---- MODULE Spec2Model ----
(***************************************************************************)
(* SurfpoolEnv (src/voyager/surfpool_env.py): the environment object that  *)
(* submits a transaction, flattens its instruction tree and credits one    *)
(* reward point per newly seen (program, discriminator) pair.              *)
(***************************************************************************)
EXTENDS Integers, Sequences, FiniteSets, TLC

VARIABLES
    program_instructions_seen,  \* keys of the dict self.program_instructions_seen
    total_reward,               \* self.total_reward
    last_tx_instruction_count,  \* self.last_tx_instruction_count
    last_tx_reward,             \* self.last_tx_reward
    last_tx_receipt,            \* self.last_tx_receipt: <<>> is None, <<e>> a receipt
                                \* whose meta.err is set iff e
    validator_cm,               \* self._validator_cm: "None", "entered", "failed"
    call,                       \* the call the caller is awaiting: what it was given and
                                \* what it returns; op is "idle" between calls
    tasks,                      \* step calls running as concurrent coroutines: where
                                \* each stands and what it was credited
    explorer,                   \* a CodeLoopExplorer in run_exploration_loop
    procs,                      \* the surfpool processes the environment has launched
    voyager,                    \* a VoyagerClone
    fetched,                    \* what fetch_transactions built for a transaction
    metrics                     \* the discovery markers of the explorers' metrics

\* the fields of a SurfpoolEnv and the calls made on it
envVars == <<program_instructions_seen, total_reward, last_tx_instruction_count,
             last_tx_reward, last_tx_receipt, validator_cm, call, tasks>>

\* the objects around the environment
extVars == <<explorer, procs, voyager, fetched, metrics>>

vars == <<program_instructions_seen, total_reward, last_tx_instruction_count,
          last_tx_reward, last_tx_receipt, validator_cm, call, tasks,
          explorer, procs, voyager, fetched, metrics>>

(***************************************************************************)
(* Bounds of the model.                                                    *)
(***************************************************************************)
\* instructions (top-level plus inner) of one transaction
MaxIx == 3

(***************************************************************************)
(* Program identities.  The scoring loop compares a program identity with  *)
(* one literal; identities are compared by value.                          *)
(***************************************************************************)
KLEND == "KLend2g3cP87fffoy8q1mQqGKjrxjC8boSyAYavgmjD"
SYSTEM == "11111111111111111111111111111111"

\* message.account_keys of the transactions submitted: the fee payer, then
\* the programs the instructions refer to by index (0-based in the source).
account_keys == <<"agent", KLEND, SYSTEM>>

ProgramIdIndex == {1, 2}

Programs == {account_keys[i + 1] : i \in ProgramIdIndex}

(***************************************************************************)
(* base58.b58decode.  An encoded string is modelled as the sequence of its *)
(* characters' positions in the base58 alphabet "123456789ABC..." ('1' is  *)
(* 0, '2' is 1, ...).  Leading '1's become leading zero bytes; the rest is *)
(* a base-58 number written out as big-endian bytes.                       *)
(***************************************************************************)
RECURSIVE B58Int(_, _)
B58Int(s, acc) ==
    IF s = <<>> THEN acc ELSE B58Int(Tail(s), acc * 58 + Head(s))

RECURSIVE BigEndianBytes(_)
BigEndianBytes(n) ==
    IF n = 0 THEN <<>> ELSE Append(BigEndianBytes(n \div 256), n % 256)

RECURSIVE LeadingOnes(_)
LeadingOnes(s) ==
    IF s = <<>> \/ Head(s) # 0 THEN 0 ELSE 1 + LeadingOnes(Tail(s))

b58decode(s) ==
    [i \in 1..LeadingOnes(s) |-> 0] \o BigEndianBytes(B58Int(s, 0))

\* b58decode raises ValueError on a character outside the alphabet; such a
\* character is modelled as position 58
Undecodable_Never(s) == FALSE

Undecodable(s) == \E i \in 1..Len(s) : s[i] \notin 0..57

\* Encoded instruction data the transactions carry:
\*   "" -> b""     "9q" -> b"\x02\x00"
EncodedData == {<<>>, <<8, 48>>}

\* A compiled instruction (UiCompiledInstruction): program index and data.
Instruction == [program_id_index : ProgramIdIndex, data : EncodedData]

(***************************************************************************)
(* The confirmed transactions get_transaction can hand back.  A shape is   *)
(* the sequence, per top-level instruction, of the number of inner         *)
(* instructions recorded for it, -1 when meta.inner_instructions has no    *)
(* entry for that index.  Entries come sorted by index, one per index.     *)
(***************************************************************************)
Max(a, b) == IF a >= b THEN a ELSE b

RECURSIVE Shapes(_)
Shapes(n) ==
    IF n = 0 THEN {<<>>}
    ELSE {<<>>} \cup
         UNION {{<<k>> \o s : s \in Shapes(n - 1 - Max(k, 0))} : k \in (-1)..(n - 1)}

RECURSIVE ShapeSize(_)
ShapeSize(shape) ==
    IF shape = <<>> THEN 0 ELSE 1 + Max(Head(shape), 0) + ShapeSize(Tail(shape))

\* position in the flat instruction list of top-level instruction i (1-based)
RECURSIVE TopPos(_, _)
TopPos(shape, i) ==
    IF i = 1 THEN 1 ELSE TopPos(shape, i - 1) + 1 + Max(shape[i - 1], 0)

RECURSIVE Entries(_, _, _)
Entries(shape, flat, i) ==
    IF i > Len(shape) THEN <<>>
    ELSE (IF shape[i] < 0 THEN <<>>
          ELSE <<[index |-> i - 1,
                  instructions |-> [j \in 1..shape[i] |-> flat[TopPos(shape, i) + j]]]>>)
         \o Entries(shape, flat, i + 1)

MakeTx(err, shape, flat) ==
    [err |-> err,
     instructions |-> [i \in 1..Len(shape) |-> flat[TopPos(shape, i)]],
     inner_instructions |-> Entries(shape, flat, 1)]

\* the transactions of at most n instructions drawn from the set ixs
TransactionsOf(ixs, n) ==
    {MakeTx(err, shape, flat) :
        err \in BOOLEAN,
        <<shape, flat>> \in UNION {{<<sh, fl>> : fl \in [1..ShapeSize(sh) -> ixs]} :
                                      sh \in Shapes(n)}}

Transactions == TransactionsOf(Instruction, MaxIx)

(***************************************************************************)
(* SurfpoolEnv._get_ordered_instructions                                   *)
(***************************************************************************)
\* {ix.index: ix.instructions for ix in meta.inner_instructions}
InnerDict(entries) ==
    [i \in {entries[n].index : n \in 1..Len(entries)} |->
        entries[CHOOSE n \in 1..Len(entries) :
                    /\ entries[n].index = i
                    /\ \A m \in 1..Len(entries) : entries[m].index = i => m <= n].instructions]

Decoded(ix) ==
    [program_id |-> account_keys[ix.program_id_index + 1], data |-> b58decode(ix.data)]

\* the loop over enumerate(message.instructions), from 0-based index idx on:
\* the top-level data is decoded, then inner_instructions[idx] is looked up
\* (KeyError when the dict has no such key), then the inner data is decoded
RECURSIVE OrderedFrom(_, _, _)
OrderedFrom(tx, inner, idx) ==
    IF idx >= Len(tx.instructions) THEN [raised |-> "None", value |-> <<>>]
    ELSE IF Undecodable(tx.instructions[idx + 1].data)
         THEN [raised |-> "ValueError", value |-> <<>>]
    ELSE IF idx \notin DOMAIN inner THEN [raised |-> "KeyError", value |-> <<>>]
    ELSE IF \E j \in 1..Len(inner[idx]) : Undecodable(inner[idx][j].data)
         THEN [raised |-> "ValueError", value |-> <<>>]
    ELSE LET rest == OrderedFrom(tx, inner, idx + 1)
             here == <<Decoded(tx.instructions[idx + 1])>>
                     \o [j \in 1..Len(inner[idx]) |-> Decoded(inner[idx][j])]
         IN  IF rest.raised # "None" THEN rest
             ELSE [raised |-> "None", value |-> here \o rest.value]

\* a variant that reads message.instructions[0] before looping
_get_ordered_instructions_FirstRequired(tx) ==
    IF Len(tx.instructions) = 0 THEN [raised |-> "IndexError", value |-> <<>>]
    ELSE OrderedFrom(tx, InnerDict(tx.inner_instructions), 0)

_get_ordered_instructions(tx) == OrderedFrom(tx, InnerDict(tx.inner_instructions), 0)

(***************************************************************************)
(* SurfpoolEnv._calculate_reward                                           *)
(***************************************************************************)
Discriminator(data) == IF Len(data) > 0 THEN data[1] ELSE 0

Key(ix) == <<ix.program_id, Discriminator(ix.data)>>

\* `key not in self.program_instructions_seen and key[0] == "KLend..."`
Credited_AnyProgram(key, seen) == key \notin seen

Credited_NoSeenCheck(key, seen) == key[1] = KLEND

Credited(key, seen) == key \notin seen /\ key[1] = KLEND

\* `self.program_instructions_seen[key] = True`
Insert_Overwrite(seen, key) == {key}

Insert(seen, key) == seen \cup {key}

\* the for loop: state is the reward so far and the keys seen so far; log is
\* the keys of the "Discovered new program instruction" lines it logs
RECURSIVE ScoreLoop(_, _, _)
ScoreLoop(ordered, reward, seen) ==
    IF ordered = <<>> THEN [reward |-> reward, seen |-> seen, log |-> <<>>]
    ELSE LET key == Key(Head(ordered))
         IN  IF Credited(key, seen)
             THEN [ScoreLoop(Tail(ordered), reward + 1, Insert(seen, key))
                      EXCEPT !.log = <<key>> \o @]
             ELSE ScoreLoop(Tail(ordered), reward, seen)

_calculate_reward_NoErrCheck(tx, seen) ==
    LET ordered == _get_ordered_instructions(tx)
    IN  IF ordered.raised # "None"
        THEN [raised |-> ordered.raised, reward |-> 0, seen |-> seen, log |-> <<>>]
        ELSE [raised |-> "None"] @@ ScoreLoop(ordered.value, 0, seen)

_calculate_reward(tx, seen) ==
    IF tx.err THEN [raised |-> "None", reward |-> 0, seen |-> seen, log |-> <<>>]
    ELSE LET ordered == _get_ordered_instructions(tx)
         IN  IF ordered.raised # "None"
             THEN [raised |-> ordered.raised, reward |-> 0, seen |-> seen, log |-> <<>>]
             ELSE [raised |-> "None"] @@ ScoreLoop(ordered.value, 0, seen)

(***************************************************************************)
(* The record of a call: what it was given, the ledger before it, and what *)
(* it returned or raised.  The callers await every call (the exploration   *)
(* loops do `await env.step(...)`), so a call starts only when the         *)
(* previous one has returned.                                              *)
(***************************************************************************)
Idle ==
    [op |-> "idle", result |-> <<>>, seen_before |-> {}, total_before |-> 0,
     raised |-> "None", reward |-> 0, error |-> FALSE, ordered |-> <<>>, info |-> <<>>,
     obs |-> FALSE, evaluated |-> <<>>, events |-> <<>>]

\* the info dict step returns with a reward (tx_sig and tx_meta are opaque)
StepInfo(ordered, reward) ==
    [tx_sig |-> "sig", tx_meta |-> "json",
     programs_interacted |-> {ordered[i].program_id : i \in 1..Len(ordered)},
     reward |-> reward]

\* the info dict of the error returns
ErrorInfo == [error |-> "str(e)"]

\* info = {}
NoInfo == <<>>

Call(op, result, raised, reward, info, ordered) ==
    [op |-> op,                       \* "reset", "step", "close"
     result |-> result,               \* <<tx>>: what get_transaction returned; <<>>: nothing
     seen_before |-> program_instructions_seen,
     total_before |-> total_reward,
     raised |-> raised,               \* "None" or the exception that left the call
     reward |-> reward,               \* the reward returned (0 when nothing was returned)
     error |-> "error" \in DOMAIN info, \* the returned info carries "error"
     ordered |-> ordered,             \* ordered_instructions as step computed it
     info |-> info,                   \* the info dict returned (<<>> is {})
     obs |-> FALSE,                   \* the call returned the observation of the state
                                      \* it left (Observation there)
     evaluated |-> <<>>,              \* step2: <<result>>, what evaluate_code gave
     events |-> <<>>]                 \* step2: the kinds of the events returned

(***************************************************************************)
(* SurfpoolEnv._get_observation.  Program identities are held here as      *)
(* their base58 text, which is what str(program_id) yields.                *)
(***************************************************************************)
Range(list) == {list[i] : i \in 1..Len(list)}

\* a variant that keeps only the latest instruction id of a program
AppendInstruction_Replace(list, instruction_id) == <<instruction_id>>

\* if instruction_id not in list: list.append(instruction_id)
AppendInstruction(list, instruction_id) ==
    IF instruction_id \in Range(list) THEN list ELSE Append(list, instruction_id)

\* the loop over program_instructions_seen.items(), acc being the dict built
RECURSIVE BuildByProgram(_, _)
BuildByProgram(keys, acc) ==
    IF keys = {} THEN acc
    ELSE LET k == CHOOSE q \in keys : TRUE
             lists == IF k[1] \in DOMAIN acc THEN acc ELSE acc @@ (k[1] :> <<>>)
         IN  BuildByProgram(keys \ {k},
                            [lists EXCEPT ![k[1]] = AppendInstruction(@, k[2])])

\* list.sort()
RECURSIVE Sorted(_)
Sorted(list) ==
    IF list = <<>> THEN <<>>
    ELSE LET m == CHOOSE i \in 1..Len(list) : \A j \in 1..Len(list) : list[i] <= list[j]
         IN  <<list[m]>> \o Sorted(SubSeq(list, 1, m - 1) \o SubSeq(list, m + 1, Len(list)))

_get_observation(seen, instruction_count, reward) ==
    LET unique_programs == {k[1] : k \in seen}
        by_program == BuildByProgram(seen, <<>>)
    IN  [discovered_programs |-> Cardinality(unique_programs),
         discovered_program_list |-> unique_programs,
         discovered_instructions_by_program |->
             [p \in DOMAIN by_program |-> Sorted(by_program[p])],
         total_reward |-> Cardinality(seen),
         unique_instructions_found |-> Cardinality(seen),
         last_tx_instruction_count |-> instruction_count,
         last_tx_reward |-> reward]

\* the observation of the current state
Observation ==
    _get_observation(program_instructions_seen, last_tx_instruction_count, last_tx_reward)

\* the coroutines that call step concurrently
Tasks == {"t1", "t2"}

\* a coroutine: pc is where it stands ("absent", "start", "awaiting" the
\* client, "observing" in the await of _get_observation, "returned",
\* "raised"); seen_before the ledger when its call began; offered the keys of
\* allowed programs its successful transaction carried; reward what its call
\* returns; log the keys its call was credited; credits those of all its calls
Task(pc) ==
    [pc |-> pc, seen_before |-> {}, offered |-> {}, reward |-> 0, log |-> <<>>,
     credits |-> <<>>]

NoTasks == [t \in Tasks |-> Task("absent")]

(***************************************************************************)
(* SurfpoolEnv.__init__                                                    *)
(***************************************************************************)
EnvInit ==
    /\ program_instructions_seen = {}
    /\ total_reward = 0
    /\ last_tx_instruction_count = 0
    /\ last_tx_reward = 0
    /\ last_tx_receipt = <<>>
    /\ validator_cm = "None"
    /\ call = Idle
    /\ tasks = NoTasks

\* no explorer, process, agent or fetched example yet
ExtInit ==
    /\ explorer = <<>>
    /\ procs = <<>>
    /\ voyager = <<>>
    /\ fetched = <<>>
    /\ metrics = <<>>

Init == EnvInit /\ ExtInit

(***************************************************************************)
(* SurfpoolEnv.reset.  launched: the fresh validator printed the ready     *)
(* token (otherwise __aenter__ raises); airdropped: the airdrop confirmed. *)
(***************************************************************************)
\* the assignment reset once made: self.program_instructions_seen = {}
ResetLedger_Cleared(seen) == {}

\* reset leaves self.program_instructions_seen alone
ResetLedger(seen) == seen

\* the other assignment reset once made: self.total_reward = 0
ResetTotal_Zeroed(total) == 0

\* reset leaves self.total_reward alone
ResetTotal(total) == total

\* what reset does to the fields of the environment
ResetEnv(launched, airdropped) ==
    /\ call.op = "idle"
    /\ validator_cm' = IF launched THEN "entered" ELSE "failed"
    /\ program_instructions_seen' = ResetLedger(program_instructions_seen)
    /\ total_reward' = ResetTotal(total_reward)
    /\ UNCHANGED tasks
    /\ IF ~launched
       THEN /\ UNCHANGED <<last_tx_instruction_count, last_tx_reward, last_tx_receipt>>
            /\ call' = Call("reset", <<>>, "RuntimeError", 0, NoInfo, <<>>)
       ELSE /\ last_tx_instruction_count' = 0
            /\ last_tx_reward' = 0
            /\ last_tx_receipt' = IF airdropped THEN <<>> ELSE last_tx_receipt
            /\ call' = IF airdropped
                       THEN [Call("reset", <<>>, "None", 0, NoInfo, <<>>)
                                EXCEPT !.obs = TRUE]
                       ELSE Call("reset", <<>>, "None", 0, ErrorInfo, <<>>)

Reset(launched, airdropped) ==
    /\ ResetEnv(launched, airdropped)
    /\ UNCHANGED extVars

(***************************************************************************)
(* SurfpoolEnv.step, when sending, confirming or fetching fails: the       *)
(* except branches return the observation, reward 0 and the error.         *)
(***************************************************************************)
StepRpcError_NoErrorInInfo ==
    /\ UNCHANGED extVars
    /\ last_tx_receipt' = <<>>
    /\ UNCHANGED <<program_instructions_seen, total_reward, last_tx_instruction_count,
                   last_tx_reward, validator_cm, tasks>>
    /\ call' = [Call("step", <<>>, "None", 0, NoInfo, <<>>) EXCEPT !.obs = TRUE]

StepRpcErrorEnv ==
    /\ last_tx_receipt' = <<>>
    /\ UNCHANGED <<program_instructions_seen, total_reward, last_tx_instruction_count,
                   last_tx_reward, validator_cm, tasks>>
    /\ call' = [Call("step", <<>>, "None", 0, ErrorInfo, <<>>)
                    EXCEPT !.obs = TRUE]

(***************************************************************************)
(* SurfpoolEnv.step, when get_transaction returned tx.                     *)
(***************************************************************************)
\* self.last_tx_instruction_count = len(ordered_instructions)
InstructionCount_Scorable(ordered) ==
    Cardinality({i \in 1..Len(ordered) : ordered[i].program_id = KLEND})

InstructionCount(ordered) == Len(ordered)

StepConfirmedEnv(tx) ==
    /\ last_tx_receipt' = <<tx.err>>
    /\ UNCHANGED <<validator_cm, tasks>>
    /\ LET ordered == _get_ordered_instructions(tx)
           scored == _calculate_reward(tx, program_instructions_seen)
       IN  IF ordered.raised # "None"
           THEN /\ UNCHANGED <<program_instructions_seen, total_reward,
                               last_tx_instruction_count, last_tx_reward>>
                /\ call' = Call("step", <<tx>>, ordered.raised, 0, NoInfo, <<>>)
           ELSE /\ last_tx_instruction_count' = InstructionCount(ordered.value)
                /\ program_instructions_seen' = scored.seen
                /\ last_tx_reward' = scored.reward
                /\ total_reward' = total_reward + scored.reward
                /\ call' = [Call("step", <<tx>>, "None", scored.reward,
                                 StepInfo(ordered.value, scored.reward), ordered.value)
                                EXCEPT !.obs = TRUE]

StepRpcError ==
    /\ StepRpcErrorEnv
    /\ UNCHANGED extVars

StepConfirmed(tx) ==
    /\ StepConfirmedEnv(tx)
    /\ UNCHANGED extVars

\* A transaction is confirmed only by a running validator.
Step ==
    /\ call.op = "idle"
    /\ \/ StepRpcError
       \/ /\ validator_cm = "entered"
          /\ \E tx \in Transactions : StepConfirmed(tx)

(***************************************************************************)
(* SurfpoolEnv.close                                                       *)
(***************************************************************************)
\* what close does to the fields of the environment
CloseEnv ==
    /\ call.op = "idle"
    /\ validator_cm' = "None"
    /\ UNCHANGED <<program_instructions_seen, total_reward, last_tx_instruction_count,
                   last_tx_reward, last_tx_receipt, tasks>>
    /\ call' = Call("close", <<>>, "None", 0, NoInfo, <<>>)

Close ==
    /\ CloseEnv
    /\ UNCHANGED extVars

(***************************************************************************)
(* The awaited call returns to its caller.                                 *)
(***************************************************************************)
Return ==
    /\ UNCHANGED extVars
    /\ call.op # "idle"
    /\ call' = Idle
    /\ UNCHANGED <<program_instructions_seen, total_reward, last_tx_instruction_count,
                   last_tx_reward, last_tx_receipt, validator_cm, tasks>>

Next ==
    \/ \E launched \in BOOLEAN, airdropped \in BOOLEAN : Reset(launched, airdropped)
    \/ Step
    \/ Close
    \/ Return

Spec == Init /\ [][Next]_vars

(***************************************************************************)
(* SurfpoolEnv.step2: the agent's code is evaluated; when that gives a     *)
(* serialized transaction it is signed and handed to step, otherwise the   *)
(* error is returned with the observation.                                 *)
(***************************************************************************)
MaxStep2Ix == 2

\* what skill_manager.evaluate_code returns: success, and whether it holds a
\* serialized_tx
EvalResults == [success : BOOLEAN, serialized_tx : BOOLEAN]

\* a variant that looks at success alone
Submits_OnSuccess(result) == result.success

\* result.get('success', False) and result.get('serialized_tx')
Submits(result) == result.success /\ result.serialized_tx

\* error_info
Step2ErrorInfo == [error |-> "reason", trace |-> "", stdout |-> "", stderr |-> ""]

\* the else branch: no call of step
Step2FailedEnv(result) ==
    /\ UNCHANGED <<program_instructions_seen, total_reward, last_tx_instruction_count,
                   last_tx_reward, last_tx_receipt, validator_cm, tasks>>
    /\ call' = [Call("step2", <<>>, "None", 0, Step2ErrorInfo, <<>>)
                    EXCEPT !.obs = TRUE, !.evaluated = <<result>>,
                           !.events = <<"error", "observe">>]

\* step, called by step2, fails in the client
Step2RpcErrorEnv(result) ==
    /\ last_tx_receipt' = <<>>
    /\ UNCHANGED <<program_instructions_seen, total_reward, last_tx_instruction_count,
                   last_tx_reward, validator_cm, tasks>>
    /\ call' = [Call("step2", <<>>, "None", 0, ErrorInfo, <<>>)
                    EXCEPT !.obs = TRUE, !.evaluated = <<result>>,
                           !.events = <<"info", "observe">>]

\* step, called by step2, gets tx back from get_transaction
Step2ConfirmedEnv(result, tx) ==
    /\ last_tx_receipt' = <<tx.err>>
    /\ UNCHANGED <<validator_cm, tasks>>
    /\ LET ordered == _get_ordered_instructions(tx)
           scored == _calculate_reward(tx, program_instructions_seen)
       IN  IF ordered.raised # "None"
           THEN /\ UNCHANGED <<program_instructions_seen, total_reward,
                               last_tx_instruction_count, last_tx_reward>>
                /\ call' = [Call("step2", <<tx>>, ordered.raised, 0, NoInfo, <<>>)
                                EXCEPT !.evaluated = <<result>>]
           ELSE /\ last_tx_instruction_count' = InstructionCount(ordered.value)
                /\ program_instructions_seen' = scored.seen
                /\ last_tx_reward' = scored.reward
                /\ total_reward' = total_reward + scored.reward
                /\ call' = [Call("step2", <<tx>>, "None", scored.reward,
                                 StepInfo(ordered.value, scored.reward), ordered.value)
                                EXCEPT !.obs = TRUE, !.evaluated = <<result>>,
                                       !.events = <<"info", "observe">>]

Step2Failed(result) ==
    /\ Step2FailedEnv(result)
    /\ UNCHANGED extVars

Step2RpcError(result) ==
    /\ Step2RpcErrorEnv(result)
    /\ UNCHANGED extVars

Step2Confirmed(result, tx) ==
    /\ Step2ConfirmedEnv(result, tx)
    /\ UNCHANGED extVars

Step2 ==
    /\ call.op = "idle"
    /\ \E result \in EvalResults :
           IF Submits(result)
           THEN \/ Step2RpcError(result)
                \/ /\ validator_cm = "entered"
                   /\ \E tx \in TransactionsOf(Instruction, MaxStep2Ix) :
                          Step2Confirmed(result, tx)
           ELSE Step2Failed(result)

NextStep2 ==
    \/ \E launched \in BOOLEAN, airdropped \in BOOLEAN : Reset(launched, airdropped)
    \/ Step2
    \/ Close
    \/ Return

SpecStep2 == Init /\ [][NextStep2]_vars

(***************************************************************************)
(* Transactions whose encoded data may hold a character outside the base58 *)
(* alphabet.                                                               *)
(***************************************************************************)
MaxBadIx == 2

\* "0": not a base58 character
BadData == <<58>>

InstructionOrBad == [program_id_index : ProgramIdIndex, data : EncodedData \cup {BadData}]

StepDecode ==
    /\ call.op = "idle"
    /\ \/ StepRpcError
       \/ /\ validator_cm = "entered"
          /\ \E tx \in TransactionsOf(InstructionOrBad, MaxBadIx) : StepConfirmed(tx)

NextDecode ==
    \/ \E launched \in BOOLEAN, airdropped \in BOOLEAN : Reset(launched, airdropped)
    \/ StepDecode
    \/ Close
    \/ Return

SpecDecode == Init /\ [][NextDecode]_vars

(***************************************************************************)
(* step called by several coroutines of one event loop on one environment  *)
(* that reset has started.  A coroutine runs without interruption between  *)
(* two awaits: from the start of step to the first await of the client,    *)
(* from the answer of get_transaction to the await of _get_observation,    *)
(* and from there to the return.                                           *)
(***************************************************************************)
MaxConcIx == 1

ConcInit ==
    /\ program_instructions_seen = {}
    /\ total_reward = 0
    /\ last_tx_instruction_count = 0
    /\ last_tx_reward = 0
    /\ last_tx_receipt = <<>>
    /\ validator_cm = "entered"
    /\ call = Idle
    /\ tasks = [t \in Tasks |-> Task("start")]
    /\ ExtInit

\* step is called: self.last_tx_receipt = None, then await send_transaction
ConcSend(t) ==
    /\ UNCHANGED extVars
    /\ tasks[t].pc \in {"start", "returned", "raised"}
    /\ last_tx_receipt' = <<>>
    /\ tasks' = [tasks EXCEPT ![t] = [Task("awaiting") EXCEPT
                                         !.seen_before = program_instructions_seen,
                                         !.credits = tasks[t].credits]]
    /\ UNCHANGED <<program_instructions_seen, total_reward, last_tx_instruction_count,
                   last_tx_reward, validator_cm, call>>

\* an await of the client raised: the except branch awaits _get_observation
ConcRpcError(t) ==
    /\ UNCHANGED extVars
    /\ tasks[t].pc = "awaiting"
    /\ tasks' = [tasks EXCEPT ![t].pc = "observing"]
    /\ UNCHANGED <<program_instructions_seen, total_reward, last_tx_instruction_count,
                   last_tx_reward, last_tx_receipt, validator_cm, call>>

\* get_transaction answered with tx: extraction and scoring run to the await
\* of _get_observation, or extraction raises out of step
ConcConfirmed(t, tx) ==
    /\ UNCHANGED extVars
    /\ last_tx_receipt' = <<tx.err>>
    /\ UNCHANGED <<validator_cm, call>>
    /\ LET ordered == _get_ordered_instructions(tx)
           scored == _calculate_reward(tx, program_instructions_seen)
       IN  IF ordered.raised # "None"
           THEN /\ UNCHANGED <<program_instructions_seen, total_reward,
                               last_tx_instruction_count, last_tx_reward>>
                /\ tasks' = [tasks EXCEPT ![t].pc = "raised"]
           ELSE /\ last_tx_instruction_count' = InstructionCount(ordered.value)
                /\ program_instructions_seen' = scored.seen
                /\ last_tx_reward' = scored.reward
                /\ total_reward' = total_reward + scored.reward
                /\ tasks' = [tasks EXCEPT
                                ![t].pc = "observing",
                                ![t].offered = IF tx.err THEN {}
                                               ELSE {Key(ordered.value[i]) :
                                                        i \in 1..Len(ordered.value)}
                                                    \cap ({KLEND} \X Nat),
                                ![t].reward = scored.reward,
                                ![t].log = scored.log,
                                ![t].credits = @ \o scored.log]

\* the await of _get_observation is over: step returns
ConcReturn(t) ==
    /\ UNCHANGED extVars
    /\ tasks[t].pc = "observing"
    /\ tasks' = [tasks EXCEPT ![t].pc = "returned"]
    /\ UNCHANGED <<program_instructions_seen, total_reward, last_tx_instruction_count,
                   last_tx_reward, last_tx_receipt, validator_cm, call>>

ConcStep(t) ==
    /\ tasks[t].pc = "awaiting"
    /\ \/ ConcRpcError(t)
       \/ \E tx \in TransactionsOf(Instruction, MaxConcIx) : ConcConfirmed(t, tx)

ConcNext ==
    \E t \in Tasks :
        \/ ConcSend(t)
        \/ ConcStep(t)
        \/ ConcReturn(t)

SpecConc == ConcInit /\ [][ConcNext]_vars

(***************************************************************************)
(* _surfpool_validator and the processes it launches.  A process is        *)
(* running or not; returncode tells whether asyncio has seen it exit;      *)
(* ready whether it printed READY_TOKEN; cm is where its context manager   *)
(* stands ("yielded", "exited", "raised"); signals are the signals sent to *)
(* its group.  reset and close drive the context manager of the            *)
(* environment, whose process, if any, is the last one launched.           *)
(***************************************************************************)
MaxLaunches == 3

\* a variant whose cleanup stops at SIGTERM
Finalize_NoKill(proc, obeys) ==
    IF proc.returncode THEN proc
    ELSE IF ~proc.running
         THEN [proc EXCEPT !.returncode = TRUE, !.signals = Append(@, "SIGTERM")]
    ELSE IF obeys
         THEN [proc EXCEPT !.running = FALSE, !.returncode = TRUE,
                           !.signals = Append(@, "SIGTERM")]
    ELSE [proc EXCEPT !.signals = Append(@, "SIGTERM")]

\* the finally block: nothing when proc.returncode is set; otherwise SIGTERM
\* to the group (ProcessLookupError when it is gone already), a wait of 8 s,
\* and on timeout SIGKILL and a wait without limit.  obeys: the process
\* exits within the wait.
Finalize(proc, obeys) ==
    IF proc.returncode THEN proc
    ELSE IF ~proc.running
         THEN [proc EXCEPT !.returncode = TRUE, !.signals = Append(@, "SIGTERM")]
    ELSE IF obeys
         THEN [proc EXCEPT !.running = FALSE, !.returncode = TRUE,
                           !.signals = Append(@, "SIGTERM")]
    ELSE [proc EXCEPT !.running = FALSE, !.returncode = TRUE,
                      !.signals = Append(Append(@, "SIGTERM"), "SIGKILL")]

\* __aenter__: the process is launched and its output read up to the ready
\* token (control is yielded) or to its end (RuntimeError through the
\* finally block).  alive, reaped: at the end of the output the process
\* still runs, or asyncio has seen it exit.
Enter(ready, alive, reaped, obeys) ==
    IF ready
    THEN [running |-> TRUE, returncode |-> FALSE, ready |-> TRUE, cm |-> "yielded",
          signals |-> <<>>]
    ELSE [Finalize([running |-> alive, returncode |-> ~alive /\ reaped, ready |-> FALSE,
                    cm |-> "raised", signals |-> <<>>], obeys)
             EXCEPT !.cm = "raised"]

\* __aexit__(None, None, None): the generator runs its finally block, unless
\* it is over already
Exit(proc, obeys) ==
    IF proc.cm = "yielded" THEN [Finalize(proc, obeys) EXCEPT !.cm = "exited"] ELSE proc

\* a variant of the test that never shuts the old validator down
HasValidator_Never(cm) == FALSE

\* `if self._validator_cm:`
HasValidator(cm) == cm # "None"

\* the processes after the __aexit__ of the environment's context manager
ShutDown(obeys) ==
    IF HasValidator(validator_cm) /\ validator_cm = "entered"
    THEN [procs EXCEPT ![Len(procs)] = Exit(@, obeys)]
    ELSE procs

notProcs == <<explorer, voyager, fetched, metrics>>

ValidatorInit == EnvInit /\ explorer = <<>> /\ voyager = <<>> /\ fetched = <<>>
                 /\ metrics = <<>> /\ procs = <<>>

ValReset(ready, airdropped, alive, reaped, obeysOld, obeysNew) ==
    /\ Len(procs) < MaxLaunches
    /\ ResetEnv(ready, airdropped)
    /\ procs' = Append(ShutDown(obeysOld), Enter(ready, alive, reaped, obeysNew))
    /\ UNCHANGED notProcs

ValClose(obeys) ==
    /\ CloseEnv
    /\ procs' = ShutDown(obeys)
    /\ UNCHANGED notProcs

\* a process exits by itself; reaped: asyncio has seen it
ProcExits(i, reaped) ==
    /\ procs[i].running
    /\ procs' = [procs EXCEPT ![i].running = FALSE, ![i].returncode = reaped]
    /\ UNCHANGED envVars
    /\ UNCHANGED notProcs

\* asyncio sees that a process has exited
ProcReaped(i) ==
    /\ ~procs[i].running /\ ~procs[i].returncode
    /\ procs' = [procs EXCEPT ![i].returncode = TRUE]
    /\ UNCHANGED envVars
    /\ UNCHANGED notProcs

NextValidator ==
    \/ \E ready \in BOOLEAN, airdropped \in BOOLEAN, alive \in BOOLEAN, reaped \in BOOLEAN,
          obeysOld \in BOOLEAN, obeysNew \in BOOLEAN :
           ValReset(ready, airdropped, alive, reaped, obeysOld, obeysNew)
    \/ \E obeys \in BOOLEAN : ValClose(obeys)
    \/ \E i \in 1..Len(procs), reaped \in BOOLEAN : ProcExits(i, reaped)
    \/ \E i \in 1..Len(procs) : ProcReaped(i)
    \/ Return

SpecValidator == ValidatorInit /\ [][NextValidator]_vars

(***************************************************************************)
(* VoyagerClone: reset, step and rollout over the environment.  pc is      *)
(* where the agent stands: "new" after construction, "rollout" inside the  *)
(* loop of rollout, "returned" or "raised" after it.  steps counts the     *)
(* calls of step the current rollout has made, rollouts the rollouts.      *)
(***************************************************************************)
MaxRetries == 3
MaxRollouts == 2
MaxVoyIx == 1

VoyagerClone(max_retries) ==
    [action_agent_rollout_num_iter |-> -1,
     action_agent_task_max_retries |-> max_retries,
     pc |-> "new", steps |-> 0, success |-> FALSE, done |-> FALSE, raised |-> "None",
     rollouts |-> 0]

notVoyager == <<explorer, procs, fetched, metrics>>

VoyagerInit == EnvInit /\ explorer = <<>> /\ procs = <<>> /\ fetched = <<>>
               /\ metrics = <<>>
               /\ voyager \in {VoyagerClone(m) : m \in 0..MaxRetries}

\* rollout: reset (which resets the environment when reset_env) and the loop
VoyRollout(reset_env, launched, airdropped) ==
    /\ voyager.pc # "rollout"
    /\ voyager.rollouts < MaxRollouts
    /\ IF reset_env THEN ResetEnv(launched, airdropped)
       ELSE call.op = "idle" /\ UNCHANGED envVars
    /\ voyager' = [voyager EXCEPT
                      !.action_agent_rollout_num_iter = 0,
                      !.steps = 0, !.success = FALSE, !.done = FALSE,
                      !.rollouts = @ + 1,
                      !.pc = IF reset_env /\ ~launched THEN "raised" ELSE "rollout",
                      !.raised = IF reset_env /\ ~launched THEN "RuntimeError" ELSE "None"]
    /\ UNCHANGED notVoyager

\* step before any reset
VoyStepUnreset ==
    /\ call.op = "idle"
    /\ voyager.action_agent_rollout_num_iter < 0
    /\ voyager' = [voyager EXCEPT !.raised = "ValueError"]
    /\ UNCHANGED envVars
    /\ UNCHANGED notVoyager

\* an exception leaves step, and with it rollout
StepRaised(v, exception) ==
    [v EXCEPT !.raised = exception, !.steps = @ + 1, !.pc = "raised"]

\* done = (num_iter >= max_retries or success)
Done(num_iter, max_retries, success) == num_iter >= max_retries \/ success

\* the end of step, from the increment of the counter, and the test of
\* rollout's loop; named: the parsed result holds program_name
StepDone(v, success, named) ==
    LET num_iter == v.action_agent_rollout_num_iter + 1
        done == Done(num_iter, v.action_agent_task_max_retries, success)
    IN  IF success /\ ~named
        THEN [StepRaised(v, "AssertionError") EXCEPT !.action_agent_rollout_num_iter = num_iter]
        ELSE [v EXCEPT !.action_agent_rollout_num_iter = num_iter,
                       !.steps = @ + 1,
                       !.success = success, !.done = done,
                       !.pc = IF done THEN "returned" ELSE @]

\* step called by the loop of rollout: the model's message does not parse,
\* or its code goes through step2 and the critic judges
VoyStep(success, named) ==
    /\ call.op = "idle"
    /\ voyager.pc = "rollout"
    /\ voyager.action_agent_rollout_num_iter >= 0
    /\ \/ /\ ~success
          /\ UNCHANGED envVars
          /\ voyager' = StepDone(voyager, FALSE, named)
       \/ /\ \E result \in EvalResults :
                 IF Submits(result)
                 THEN \/ Step2RpcErrorEnv(result)
                      \/ /\ validator_cm = "entered"
                         /\ \E tx \in TransactionsOf(Instruction, MaxVoyIx) :
                                Step2ConfirmedEnv(result, tx)
                 ELSE Step2FailedEnv(result)
          /\ voyager' = IF call'.raised # "None" THEN StepRaised(voyager, call'.raised)
                        ELSE StepDone(voyager, success, named)
    /\ UNCHANGED notVoyager

NextVoyager ==
    \/ \E reset_env \in BOOLEAN, launched \in BOOLEAN, airdropped \in BOOLEAN :
           VoyRollout(reset_env, launched, airdropped)
    \/ VoyStepUnreset
    \/ \E success \in BOOLEAN, named \in BOOLEAN : VoyStep(success, named)
    \/ Return

SpecVoyager == VoyagerInit /\ [][NextVoyager]_vars

(***************************************************************************)
(* The first-seen markers the explorers keep in their metrics.  A run is    *)
(* that of one explorer, who: code_loop is the metrics of a                *)
(* CodeLoopExplorer with its message_count, simple those of a              *)
(* SimpleExplorer with len(self.messages); recorded is the history of what *)
(* was presented: explorer, kind, key, message index.                      *)
(***************************************************************************)
MaxMetricMessages == 2

InstructionNames == {"borrow"}

None == "None"

\* a variant that writes the marker whether or not the key is there
Mark_Overwrite(discovered, key, message_index) ==
    IF key \in DOMAIN discovered
    THEN [discovered EXCEPT ![key] = message_index]
    ELSE discovered @@ (key :> message_index)

\* if key not in discovered: discovered[key] = message_index
Mark(discovered, key, message_index) ==
    IF key \in DOMAIN discovered THEN discovered
    ELSE discovered @@ (key :> message_index)

\* for prog in info['programs_interacted']: ...
RECURSIVE MarkAll(_, _, _)
MarkAll(discovered, keys, message_index) ==
    IF keys = {} THEN discovered
    ELSE LET k == CHOOSE q \in keys : TRUE
         IN  MarkAll(Mark(discovered, k, message_index), keys \ {k}, message_index)

\* f"{program}:{instruction}"; a program identity holds no colon
InstructionKey(program, instruction) == <<program, ":", instruction>>

NoMetrics(who) ==
    [who |-> who,
     code_loop |-> [message_count |-> 0, programs_discovered |-> <<>>],
     simple |-> [messages |-> 0, programs_discovered |-> <<>>,
                 instructions_discovered |-> <<>>],
     recorded |-> {}]

notMetrics == <<explorer, procs, voyager, fetched>>

MetricsInit == EnvInit /\ explorer = <<>> /\ procs = <<>> /\ voyager = <<>>
               /\ fetched = <<>>
               /\ metrics \in {NoMetrics("code_loop"), NoMetrics("simple")}

\* an iteration of run_exploration_loop as the metrics see it: the count goes
\* up, and a transaction with a positive reward presents its programs
CodeLoopMessage(reward, programs_interacted) ==
    /\ metrics.who = "code_loop"
    /\ metrics.code_loop.message_count < MaxMetricMessages
    /\ LET message_count == metrics.code_loop.message_count + 1
           presented == IF reward > 0 THEN programs_interacted ELSE {}
       IN  metrics' = [metrics EXCEPT
                          !.code_loop.message_count = message_count,
                          !.code_loop.programs_discovered =
                              MarkAll(@, presented, message_count),
                          !.recorded = @ \cup {<<"code_loop", "program", prog, message_count>> :
                                                  prog \in presented}]
    /\ UNCHANGED envVars
    /\ UNCHANGED notMetrics

\* SimpleExplorer appends a message
SimpleMessage ==
    /\ metrics.who = "simple"
    /\ metrics.simple.messages < MaxMetricMessages
    /\ metrics' = [metrics EXCEPT !.simple.messages = @ + 1]
    /\ UNCHANGED envVars
    /\ UNCHANGED notMetrics

\* record_message_metrics(len(self.messages), program=..., instruction=...)
record_message_metrics(program, instruction) ==
    /\ metrics.who = "simple"
    /\ LET message_index == metrics.simple.messages
           key == InstructionKey(program, instruction)
       IN  metrics' = [metrics EXCEPT
                          !.simple.programs_discovered =
                              IF program # None THEN Mark(@, program, message_index) ELSE @,
                          !.simple.instructions_discovered =
                              IF program # None /\ instruction # None
                              THEN Mark(@, key, message_index) ELSE @,
                          !.recorded = @ \cup
                              (IF program # None
                               THEN {<<"simple", "program", program, message_index>>}
                               ELSE {}) \cup
                              (IF program # None /\ instruction # None
                               THEN {<<"simple", "instruction", key, message_index>>}
                               ELSE {})]
    /\ UNCHANGED envVars
    /\ UNCHANGED notMetrics

NextMetrics ==
    \/ \E reward \in 0..1, programs_interacted \in SUBSET Programs :
           CodeLoopMessage(reward, programs_interacted)
    \/ SimpleMessage
    \/ \E program \in Programs \cup {None}, instruction \in InstructionNames \cup {None} :
           record_message_metrics(program, instruction)

SpecMetrics == MetricsInit /\ [][NextMetrics]_vars

(***************************************************************************)
(* CodeLoopExplorer.run_exploration_loop, one coroutine over an            *)
(* environment that reset has started.  pc is where the coroutine stands:  *)
(* "loop" at the head of the while, "llm" in the await of the model,       *)
(* "blockhash" in the await of get_latest_blockhash, "step" in the await   *)
(* of env.step, "record" at its return, "done" after the loop.  reward is the local variable of    *)
(* that name, <<>> while it is unbound.  requests counts the calls of the  *)
(* model, submitted and completed the calls of env.step begun and ended,   *)
(* inflight tells that one is under way.  An entry of messages holds what  *)
(* the code records and, beside it, the kind of the message and own, the   *)
(* reward its own transaction earned.                                      *)
(***************************************************************************)
MaxMessages == 2
MaxLoopIx == 1

CodeLoopExplorer(max_messages) ==
    [pc |-> "loop", message_count |-> 0, max_messages |-> max_messages,
     reward |-> <<>>, messages |-> <<>>, errors |-> 0, programs_discovered |-> <<>>,
     requests |-> 0, submitted |-> 0, completed |-> 0, inflight |-> FALSE]

notExplorer == <<procs, voyager, fetched, metrics>>

ExplorerInit ==
    /\ program_instructions_seen = {}
    /\ total_reward = 0
    /\ last_tx_instruction_count = 0
    /\ last_tx_reward = 0
    /\ last_tx_receipt = <<>>
    /\ validator_cm = "entered"
    /\ call = Idle
    /\ tasks = NoTasks
    /\ procs = <<>> /\ voyager = <<>> /\ fetched = <<>> /\ metrics = <<>>
    /\ explorer \in {CodeLoopExplorer(m) : m \in 0..MaxMessages}

\* a variant that goes round once more
LoopGuard_Inclusive(e) == e.message_count <= e.max_messages

\* while self.message_count < self.max_messages
LoopGuard(e) == e.message_count < e.max_messages

\* a variant in which the loop goes on while env.step is awaited
AtLoopHead_OrInStep(e) == e.pc \in {"loop", "step"}

\* the coroutine stands at the head of the while
AtLoopHead(e) == e.pc = "loop"

\* 'reward': reward if 'reward' in locals() else 0
RecordedReward(reward) == IF reward = <<>> THEN 0 ELSE reward[1]

\* self.metrics['messages'].append(...), with the local reward as it stands
RecordMessage(e, reward, total, kind, own) ==
    [e EXCEPT !.reward = reward,
              !.messages = Append(@, [index |-> e.message_count,
                                      reward |-> RecordedReward(reward),
                                      total_reward |-> total,
                                      kind |-> kind, own |-> own]),
              !.pc = "loop"]

\* the outer except: the error is recorded, no entry of messages is
OuterExcept(e) == [e EXCEPT !.errors = @ + 1, !.pc = "loop"]

\* the head of the loop is passed: the count goes up and the model is called
ExpRequest ==
    /\ AtLoopHead(explorer)
    /\ LoopGuard(explorer)
    /\ explorer' = [explorer EXCEPT !.message_count = @ + 1, !.requests = @ + 1,
                                    !.pc = "llm"]
    /\ UNCHANGED envVars
    /\ UNCHANGED notExplorer

\* the loop is left
ExpExit ==
    /\ AtLoopHead(explorer)
    /\ ~LoopGuard(explorer)
    /\ explorer' = [explorer EXCEPT !.pc = "done"]
    /\ UNCHANGED envVars
    /\ UNCHANGED notExplorer

\* the model answers, with code blocks or without, or the call raises
ExpResponse(answer) ==
    /\ explorer.pc = "llm"
    /\ explorer' = CASE answer = "raises" -> OuterExcept(explorer)
                    [] answer = "no_code" ->
                        RecordMessage(explorer, explorer.reward, total_reward, "no_code", 0)
                    [] answer = "code" -> [explorer EXCEPT !.pc = "blockhash"]
    /\ UNCHANGED envVars
    /\ UNCHANGED notExplorer

\* get_latest_blockhash answers (ok) or it or run_code_loop_code raises; the
\* code yields a serialized transaction (has_tx) that can be signed (signs),
\* and then step is called: self.last_tx_receipt = None and the await of the
\* client
ExpExecute(ok, has_tx, signs) ==
    /\ explorer.pc = "blockhash"
    /\ IF ok /\ has_tx /\ signs
       THEN /\ explorer' = [explorer EXCEPT !.reward = <<0>>, !.pc = "step",
                                            !.submitted = @ + 1, !.inflight = TRUE]
            /\ last_tx_receipt' = <<>>
            /\ UNCHANGED <<program_instructions_seen, total_reward,
                           last_tx_instruction_count, last_tx_reward, validator_cm,
                           call, tasks>>
       ELSE /\ explorer' =
                   IF ~ok THEN OuterExcept(explorer)
                   ELSE IF ~has_tx
                        THEN [RecordMessage(explorer, <<0>>, total_reward, "no_tx", 0)
                                 EXCEPT !.errors = @ + 1]
                        ELSE RecordMessage(explorer, <<0>>, total_reward, "unsigned", 0)
            /\ UNCHANGED envVars
    /\ UNCHANGED notExplorer

\* what follows the return of env.step, or the exception out of it, down to
\* the head of the loop; returned is the record of the call
AfterStep(e, returned, total) ==
    LET raised == returned.raised # "None"
        step_reward == IF raised THEN 0 ELSE returned.reward
        tracked == IF ~raised /\ step_reward > 0
                      /\ "programs_interacted" \in DOMAIN returned.info
                   THEN MarkAll(e.programs_discovered,
                                returned.info.programs_interacted, e.message_count)
                   ELSE e.programs_discovered
    IN  [RecordMessage(e, <<step_reward>>, total, "step", step_reward)
            EXCEPT !.programs_discovered = tracked]

\* env.step runs to its end: it returns or raises
ExpStepDone ==
    /\ explorer.pc = "step"
    /\ explorer.inflight
    /\ \/ StepRpcErrorEnv
       \/ /\ validator_cm = "entered"
          /\ \E tx \in TransactionsOf(Instruction, MaxLoopIx) : StepConfirmedEnv(tx)
    /\ explorer' = [explorer EXCEPT !.pc = "record", !.completed = @ + 1,
                                    !.inflight = FALSE]
    /\ UNCHANGED notExplorer

\* the loop takes what env.step handed back and runs to its head
ExpRecord ==
    /\ explorer.pc = "record"
    /\ explorer' = AfterStep(explorer, call, total_reward)
    /\ call' = Idle
    /\ UNCHANGED <<program_instructions_seen, total_reward, last_tx_instruction_count,
                   last_tx_reward, last_tx_receipt, validator_cm, tasks>>
    /\ UNCHANGED notExplorer

NextExplorer ==
    \/ ExpRequest
    \/ ExpExit
    \/ \E answer \in {"raises", "no_code", "code"} : ExpResponse(answer)
    \/ \E ok \in BOOLEAN, has_tx \in BOOLEAN, signs \in BOOLEAN : ExpExecute(ok, has_tx, signs)
    \/ ExpStepDone
    \/ ExpRecord

SpecExplorer == ExplorerInit /\ [][NextExplorer]_vars

\* every await of the loop ends: the model and the client answer or raise
SpecExplorerFair == ExplorerInit /\ [][NextExplorer]_vars /\ WF_vars(NextExplorer)

(***************************************************************************)
(* SurfpoolEnv.fetch_transactions: up to ExamplesTaken of the signatures   *)
(* found are fetched, and for each transaction the outer and the inner     *)
(* instructions are listed and sorted by id.  An id is held as the list of *)
(* integers its sort key is ("1.0" is <<1, 0>>).  The examples built so    *)
(* far are remembered by their number, the latest one in full.             *)
(***************************************************************************)
\* limit=10
SignatureLimit == 10

\* signatures.value[:3]
ExamplesTaken == 3

Min(a, b) == IF a <= b THEN a ELSE b

FetchEntry(id, ix, depth) ==
    [id |-> id, program_id_index |-> ix.program_id_index, data |-> ix.data, depth |-> depth]

\* for outer_idx, ix in enumerate(outer_ixs)
OuterEntries(tx) ==
    [i \in 1..Len(tx.instructions) |-> FetchEntry(<<i - 1>>, tx.instructions[i], 0)]

\* for outer_idx, inner_group in enumerate(inner_ixs): the position in the list
GroupIndex(inner_ixs, n) == n - 1

\* the inner groups from the n-th on
RECURSIVE InnerEntries(_, _)
InnerEntries(inner_ixs, n) ==
    IF n > Len(inner_ixs) THEN <<>>
    ELSE [j \in 1..Len(inner_ixs[n].instructions) |->
             FetchEntry(<<GroupIndex(inner_ixs, n), j - 1>>, inner_ixs[n].instructions[j], 1)]
         \o InnerEntries(inner_ixs, n + 1)

\* comparison of the sort keys, lists of integers
RECURSIVE IdLess(_, _)
IdLess(a, b) ==
    IF a = <<>> THEN b # <<>>
    ELSE IF b = <<>> THEN FALSE
    ELSE IF a[1] # b[1] THEN a[1] < b[1]
    ELSE IdLess(Tail(a), Tail(b))

\* x placed behind the entries of a sorted list that are not greater than it
RECURSIVE InsertById(_, _)
InsertById(sorted, x) ==
    IF sorted = <<>> THEN <<x>>
    ELSE IF IdLess(x.id, Head(sorted).id) THEN <<x>> \o sorted
    ELSE <<Head(sorted)>> \o InsertById(Tail(sorted), x)

\* instructions.sort(key=...): a stable sort
RECURSIVE SortById(_)
SortById(list) ==
    IF list = <<>> THEN <<>>
    ELSE InsertById(SortById(SubSeq(list, 1, Len(list) - 1)), list[Len(list)])

\* the example built for a transaction
Example(tx) ==
    [tx |-> tx,
     success |-> ~tx.err,
     instructions |-> SortById(OuterEntries(tx) \o InnerEntries(tx.inner_instructions, 1))]

NoFetch == [phase |-> "idle", todo |-> 0, count |-> 0, example |-> <<>>, error |-> FALSE]

FetchInit == EnvInit /\ explorer = <<>> /\ procs = <<>> /\ voyager = <<>> /\ metrics = <<>>
             /\ fetched = NoFetch

notFetched == <<program_instructions_seen, total_reward, last_tx_instruction_count,
                last_tx_reward, last_tx_receipt, validator_cm, call, tasks,
                explorer, procs, voyager, metrics>>

\* get_signatures_for_address answers with n signatures, or raises
FetchCall(n, ok) ==
    /\ fetched.phase \in {"idle", "returned"}
    /\ fetched' = IF ok THEN [NoFetch EXCEPT !.phase = "fetching",
                                             !.todo = Min(n, ExamplesTaken)]
                        ELSE [NoFetch EXCEPT !.phase = "returned", !.error = TRUE]
    /\ UNCHANGED notFetched

\* get_transaction answers with tx
FetchOne(tx) ==
    /\ fetched' = [fetched EXCEPT !.phase = "built", !.todo = @ - 1, !.count = @ + 1,
                                  !.example = <<Example(tx)>>]
    /\ UNCHANGED notFetched

\* get_transaction raises or answers nothing: continue
FetchSkip ==
    /\ fetched' = [fetched EXCEPT !.todo = @ - 1]
    /\ UNCHANGED notFetched

FetchStep ==
    /\ fetched.phase = "fetching"
    /\ fetched.todo > 0
    /\ \/ FetchSkip
       \/ \E tx \in Transactions : FetchOne(tx)

\* the next round of the loop
FetchNext ==
    /\ fetched.phase = "built"
    /\ fetched' = [fetched EXCEPT !.phase = "fetching", !.example = <<>>]
    /\ UNCHANGED notFetched

\* return info
FetchReturn ==
    /\ fetched.phase = "fetching"
    /\ fetched.todo = 0
    /\ fetched' = [fetched EXCEPT !.phase = "returned"]
    /\ UNCHANGED notFetched

NextFetch ==
    \/ \E n \in 0..SignatureLimit, ok \in BOOLEAN : FetchCall(n, ok)
    \/ FetchStep
    \/ FetchNext
    \/ FetchReturn

SpecFetch == FetchInit /\ [][NextFetch]_vars

(***************************************************************************)
(* What the claims speak of, read off the transaction as it was submitted  *)
(* (not through the operators above).                                      *)
(***************************************************************************)
\* step fetched a confirmed transaction
Confirmed == call.op = "step" /\ call.result # <<>>

\* the call returned to its caller instead of raising
Returned == call.raised = "None"

Tx == call.result[1]

\* the bytes an encoded data string stands for
RawData(enc) == CASE enc = <<>> -> <<>> [] enc = <<8, 48>> -> <<2, 0>>

FirstByteOrZero(enc) == IF RawData(enc) = <<>> THEN 0 ELSE RawData(enc)[1]

ProgramOf(ix) == CASE ix.program_id_index = 1 -> KLEND [] ix.program_id_index = 2 -> SYSTEM

KeyOf(ix) == <<ProgramOf(ix), FirstByteOrZero(ix.data)>>

\* top-level indexes (0-based) the metadata has an entry for
RecordedIndexes(tx) == {tx.inner_instructions[n].index : n \in 1..Len(tx.inner_instructions)}

\* the inner instructions recorded for a top-level index, none when no entry
RecordedInner(tx, idx) ==
    IF idx \in RecordedIndexes(tx)
    THEN tx.inner_instructions[CHOOSE n \in 1..Len(tx.inner_instructions) :
                                   tx.inner_instructions[n].index = idx].instructions
    ELSE <<>>

\* every top-level instruction followed by the inner ones recorded for it
RECURSIVE Interleaved(_, _)
Interleaved(tx, idx) ==
    IF idx >= Len(tx.instructions) THEN <<>>
    ELSE <<tx.instructions[idx + 1]>> \o RecordedInner(tx, idx) \o Interleaved(tx, idx + 1)

AllInstructions(tx) == Interleaved(tx, 0)

KeysIn(tx) == {KeyOf(AllInstructions(tx)[i]) : i \in 1..Len(AllInstructions(tx))}

\* the one program the scoring loop lets through
AllowList == {KLEND}

(***************************************************************************)
(* Claims                                                                  *)
(***************************************************************************)

\* C1: a transaction whose outcome records an error is scored 0 and leaves the
\* ledger (and the cumulative reward) exactly as before the call, whatever
\* instructions it contains.
C1_FailureShortCircuit ==
    (Confirmed /\ Tx.err) =>
        /\ program_instructions_seen = call.seen_before
        /\ total_reward = call.total_before
        /\ Returned => (call.reward = 0 /\ last_tx_reward = 0)

\* a failed transaction that carries a key the ledger has not seen and the
\* scoring loop would credit
C1_Witness ==
    /\ Confirmed /\ Tx.err /\ Returned
    /\ \E k \in KeysIn(Tx) : k[1] = KLEND /\ k \notin call.seen_before

\* C2: reset leaves the ledger holding exactly the keys it held before, and a
\* step credits only keys that were not in the ledger when it was called, so a
\* key credited before a reset earns nothing when presented again after it.
C2_ResetKeepsLedger ==
    /\ call.op = "reset" => program_instructions_seen = call.seen_before
    /\ (Confirmed /\ Returned) =>
           call.reward = Cardinality(program_instructions_seen \ call.seen_before)

\* a reset that ran to the end on a ledger that already held keys
C2_Witness ==
    /\ call.op = "reset" /\ Returned /\ ~call.error
    /\ call.seen_before # {}
    /\ program_instructions_seen # {}

\* C3: no step of the environment removes a key from the ledger, so its size
\* never decreases.
C3_WriteOnce ==
    [][/\ program_instructions_seen \subseteq program_instructions_seen'
       /\ Cardinality(program_instructions_seen) <= Cardinality(program_instructions_seen')
      ]_vars

\* a step that added a key to a ledger that already held another
C3_Witness ==
    /\ Confirmed /\ Returned
    /\ call.seen_before # {}
    /\ program_instructions_seen # call.seen_before

\* C4: a successful transaction that brings a key the ledger does not hold
\* earns reward > 0, and presenting it again on the resulting ledger earns 0.
C4_Idempotence ==
    (Confirmed /\ Returned /\ ~Tx.err /\ KeysIn(Tx) \ call.seen_before # {}) =>
        /\ call.reward > 0
        /\ _calculate_reward(Tx, program_instructions_seen).reward = 0

\* C5: every program is scored: a successful transaction earns one point per
\* distinct (program, discriminator) key it contains that the ledger did not
\* hold, and the ledger becomes the old ledger plus those keys.
C5_EveryProgramScored ==
    (Confirmed /\ Returned /\ ~Tx.err) =>
        /\ call.reward = Cardinality(KeysIn(Tx) \ call.seen_before)
        /\ program_instructions_seen = call.seen_before \cup KeysIn(Tx)

C7_IntraTxDedup ==
    (/\ Confirmed /\ Returned /\ ~Tx.err
     /\ Len(AllInstructions(Tx)) >= 2
     /\ Cardinality(KeysIn(Tx)) = 1
     /\ KeysIn(Tx) \cap call.seen_before = {}) =>
        /\ call.reward = 1
        /\ program_instructions_seen = call.seen_before \cup KeysIn(Tx)

\* C8: the extractor emits every top-level instruction in its original order,
\* each immediately followed by the inner instructions recorded for its index
\* (none when the instruction has none), decoded.
C8_NestedOrdering ==
    Confirmed =>
        /\ Returned
        /\ call.ordered =
               [i \in 1..Len(AllInstructions(Tx)) |->
                   [program_id |-> ProgramOf(AllInstructions(Tx)[i]),
                    data |-> RawData(AllInstructions(Tx)[i].data)]]

\* C9: when the metadata has no entry for some top-level index, extraction
\* completes and that instruction contributes only its own record: step
\* returns, having counted the top-level instructions plus the recorded inner
\* ones.
C9_MissingInnerIsEmpty ==
    (/\ Confirmed
     /\ \E idx \in 0..(Len(Tx.instructions) - 1) : idx \notin RecordedIndexes(Tx)) =>
        /\ Returned
        /\ last_tx_instruction_count = Len(AllInstructions(Tx))

\* C10: the key of an instruction is its program with discriminator 0 when its
\* data is empty and the first data byte otherwise; every instruction of a
\* successful transaction has its key in the ledger afterwards, and two
\* empty-data instructions of one program make a single discovery.
C10_EmptyDataCollapse ==
    (Confirmed /\ Returned /\ ~Tx.err) =>
        /\ KeysIn(Tx) \subseteq program_instructions_seen
        /\ (/\ Len(AllInstructions(Tx)) >= 2
            /\ \A i \in 1..Len(AllInstructions(Tx)) :
                   /\ AllInstructions(Tx)[i].data = <<>>
                   /\ ProgramOf(AllInstructions(Tx)[i]) = ProgramOf(AllInstructions(Tx)[1])
            /\ KeysIn(Tx) \cap call.seen_before = {}) =>
               call.reward = 1

\* C12: every step that scores a transaction adds exactly the reward it
\* returns to the cumulative reward, and no other operation (reset, close, a
\* step that fails or raises) changes it; it never decreases.
C12_CumulativeReward ==
    [][/\ total_reward' >= total_reward
       /\ IF call'.op = "step" /\ call'.result # <<>> /\ call'.raised = "None"
             /\ call.op = "idle"
          THEN total_reward' = total_reward + call'.reward
          ELSE total_reward' = total_reward
      ]_vars

\* a reset that ran to the end after transactions had earned reward
C12_Witness ==
    /\ call.op = "reset" /\ Returned /\ ~call.error
    /\ call.total_before > 0
    /\ total_reward = call.total_before

\* C14: a confirmed transaction whose execution failed never makes step
\* raise: step returns with reward 0, whatever the instructions and the
\* inner-instruction metadata of the transaction.
C14_FailedTxNeverRaises ==
    (Confirmed /\ Tx.err) => (Returned /\ call.reward = 0)

\* the instructions of a transaction (top-level and recorded inner) whose
\* program passes the allow-list filter
PassingFilter(tx) ==
    {i \in 1..Len(AllInstructions(tx)) : ProgramOf(AllInstructions(tx)[i]) \in AllowList}

\* C16: the reward step returns for a transaction is a natural number no
\* greater than the number of its instructions, top-level plus inner, whose
\* program passes the allow-list filter.
C16_RewardBound ==
    (Confirmed /\ Returned) =>
        /\ call.reward \in Nat
        /\ call.reward <= Cardinality(PassingFilter(Tx))
        /\ last_tx_reward = call.reward

\* a transaction that earns as much as the bound allows while carrying an
\* instruction the filter rejects
C16_Witness ==
    /\ Confirmed /\ Returned
    /\ call.reward = 2
    /\ Cardinality(PassingFilter(Tx)) = 2
    /\ Len(AllInstructions(Tx)) = 3

\* C17: a successful transaction with no instructions is extracted to the
\* empty sequence, earns 0 and leaves the ledger as it was.
C17_ZeroInstructions ==
    (Confirmed /\ ~Tx.err /\ Len(Tx.instructions) = 0) =>
        /\ Returned
        /\ call.ordered = <<>>
        /\ call.reward = 0
        /\ program_instructions_seen = call.seen_before

\* a successful empty transaction scored on a ledger that holds keys
C17_Witness ==
    /\ Confirmed /\ ~Tx.err /\ Len(Tx.instructions) = 0
    /\ Returned
    /\ call.seen_before # {}

\* C19: when sending, confirming or fetching fails, step returns reward 0
\* with the error in its info and nothing the scoring core writes (ledger,
\* cumulative reward, last_tx_reward, last_tx_instruction_count) has changed.
C19_RpcFailureSkipsScoring ==
    [][(call.op = "idle" /\ call'.op = "step" /\ call'.result = <<>>) =>
           /\ call'.raised = "None"
           /\ call'.reward = 0
           /\ "error" \in DOMAIN call'.info
           /\ call'.ordered = <<>>
           /\ UNCHANGED <<program_instructions_seen, total_reward, last_tx_reward,
                          last_tx_instruction_count>>
      ]_vars

\* a failed submission on an environment that has earned reward and whose
\* last transaction counted instructions
C19_Witness ==
    /\ call.op = "step" /\ call.result = <<>> /\ Returned
    /\ call.seen_before # {}
    /\ total_reward > 0
    /\ last_tx_reward > 0
    /\ last_tx_instruction_count > 0

\* the (program, discriminator) pairs a mapping from program to a list of
\* discriminators stands for
PairsOf(mapping) ==
    UNION {{<<p, mapping[p][i]>> : i \in 1..Len(mapping[p])} : p \in DOMAIN mapping}

\* C13: with the reward, step hands back a mapping from program to the list
\* of discriminators newly discovered, holding exactly the keys this
\* transaction inserted into the ledger (none for a failed transaction); the
\* exploration loop reads it as info['unique_instructions'].
C13_NewlyDiscoveredReturned ==
    (Confirmed /\ Returned) =>
        /\ "unique_instructions" \in DOMAIN call.info
        /\ PairsOf(call.info.unique_instructions)
               = program_instructions_seen \ call.seen_before

\* C18: when step returns for a confirmed transaction, programs_interacted is
\* the set of the programs of all its instructions, top-level and inner, and
\* last_tx_instruction_count is the number of all of them, those the scoring
\* loop skipped included.
C18_ActivityNotHidden ==
    (Confirmed /\ Returned) =>
        /\ call.info.programs_interacted =
               {ProgramOf(AllInstructions(Tx)[i]) : i \in 1..Len(AllInstructions(Tx))}
        /\ last_tx_instruction_count = Len(AllInstructions(Tx))
        /\ call.obs
        /\ Observation.last_tx_instruction_count = Len(AllInstructions(Tx))

\* a successful transaction of three instructions of which the scoring loop
\* skipped two, under a program that is not scored
C18_Witness ==
    /\ Confirmed /\ Returned /\ ~Tx.err
    /\ Len(AllInstructions(Tx)) = 3
    /\ Cardinality(PassingFilter(Tx)) = 1
    /\ call.reward = 1
    /\ call.info.programs_interacted = {KLEND, SYSTEM}

\* C20: in every state the observation's discovered_instructions_by_program
\* lists each ledger key exactly once under its program, so the pairs rebuilt
\* from it are the ledger's keys; unique_instructions_found is the ledger's
\* size and discovered_programs the number of distinct programs in it.
C20_ObservationRoundTrip ==
    LET by_program == Observation.discovered_instructions_by_program
    IN  /\ PairsOf(by_program) = program_instructions_seen
        /\ \A p \in DOMAIN by_program :
               Cardinality(Range(by_program[p])) = Len(by_program[p])
        /\ Observation.unique_instructions_found = Cardinality(program_instructions_seen)
        /\ Observation.discovered_programs
               = Cardinality({k[1] : k \in program_instructions_seen})

\* a step returned the observation of a ledger holding two keys of one program
C20_Witness ==
    /\ Confirmed /\ Returned
    /\ Cardinality(program_instructions_seen) = 2
    /\ call.obs
    /\ Observation.discovered_instructions_by_program = (KLEND :> <<0, 2>>)
    /\ Observation.discovered_programs = 1

\* the instruction's data is not empty and not a base58 string
Corrupted(ix) == ix.data # <<>> /\ ix.data \notin EncodedData

CreditsFor(key) ==
    Cardinality({c \in UNION {{<<t, i>> : i \in 1..Len(tasks[t].credits)} : t \in Tasks} :
                    tasks[c[1]].credits[c[2]] = key})

Scored(t) == tasks[t].pc \in {"observing", "returned"}

\* C11: however the step calls of the coroutines interleave, every key is
\* credited at most once over the whole run: two calls whose transactions
\* both carry a key that was in the ledger when neither began are never both
\* credited it, and the cumulative reward is the number of credits given.
C11_AtMostOneCredit ==
    /\ \A t \in Tasks : \A i \in 1..Len(tasks[t].credits) :
           CreditsFor(tasks[t].credits[i]) <= 1
    /\ \A t \in Tasks : \A u \in Tasks \ {t} :
           (Scored(t) /\ Scored(u)) =>
               \A k \in (tasks[t].offered \cap tasks[u].offered)
                           \ (tasks[t].seen_before \cup tasks[u].seen_before) :
                   /\ ~(k \in Range(tasks[t].log) /\ k \in Range(tasks[u].log))
                   /\ tasks[t].reward + tasks[u].reward
                          <= Cardinality((tasks[t].offered \cup tasks[u].offered)
                                         \ (tasks[t].seen_before \cap tasks[u].seen_before))
    /\ total_reward = Len(tasks.t1.credits) + Len(tasks.t2.credits)

\* two calls in flight at once, both begun on an empty ledger and both
\* carrying the same key: one was credited it, the other earned nothing
C11_Witness ==
    /\ tasks.t1.pc = "returned" /\ tasks.t2.pc = "returned"
    /\ tasks.t1.seen_before = {} /\ tasks.t2.seen_before = {}
    /\ tasks.t1.offered = {<<KLEND, 2>>} /\ tasks.t2.offered = {<<KLEND, 2>>}
    /\ tasks.t1.reward = 0
    /\ tasks.t2.reward = 1 /\ tasks.t2.log = <<(<<KLEND, 2>>)>>

\* C22: in every state the cumulative reward is the number of keys in the
\* ledger, so the total_reward of the observation (the ledger size) is the
\* total_reward the explorer shows and saves; after steps that return, steps
\* that fail or raise, and resets alike.
C22_TotalIsLedgerSize ==
    /\ total_reward = Cardinality(program_instructions_seen)
    /\ Observation.total_reward = total_reward

\* a step failed in the client on an environment that had earned 2
C22_Witness ==
    /\ call.op = "step" /\ call.result = <<>> /\ call.obs
    /\ total_reward = 2
    /\ Observation.total_reward = 2

\* C30: when evaluating the code does not succeed or gives no serialized
\* transaction, step2 submits nothing (step is not entered: no transaction
\* result, last_tx_receipt untouched), returns reward 0 and the events
\* error, observation, and leaves the ledger and the cumulative reward alone.
C30_Step2FailureSubmitsNothing ==
    [][(/\ call.op = "idle" /\ call'.op = "step2"
        /\ ~(call'.evaluated[1].success /\ call'.evaluated[1].serialized_tx)) =>
           /\ call'.result = <<>>
           /\ call'.raised = "None"
           /\ call'.reward = 0
           /\ call'.events = <<"error", "observe">>
           /\ "error" \in DOMAIN call'.info
           /\ UNCHANGED <<program_instructions_seen, total_reward, last_tx_reward,
                          last_tx_instruction_count, last_tx_receipt>>
      ]_vars

\* the evaluation succeeded without a serialized transaction, on a started
\* environment whose last transaction earned reward
C30_Witness ==
    /\ call.op = "step2"
    /\ call.evaluated = <<[success |-> TRUE, serialized_tx |-> FALSE]>>
    /\ validator_cm = "entered"
    /\ last_tx_receipt # <<>>
    /\ last_tx_reward > 0
    /\ call.seen_before # {}

\* the ids of the instructions in execution order, from top-level index idx on
RECURSIVE ExecutionIds(_, _)
ExecutionIds(tx, idx) ==
    IF idx >= Len(tx.instructions) THEN <<>>
    ELSE <<(<<idx>>)>> \o [j \in 1..Len(RecordedInner(tx, idx)) |-> <<idx, j - 1>>]
         \o ExecutionIds(tx, idx + 1)

\* C28: the instructions of every example fetch_transactions builds are in
\* execution order: each top-level instruction, with id "i", is immediately
\* followed by the inner instructions recorded for it, with ids "i.0",
\* "i.1", ..., also when only some top-level instructions have inner ones.
C28_FetchExecutionOrder ==
    fetched.example # <<>> =>
        LET ex == fetched.example[1]
            all == AllInstructions(ex.tx)
        IN  /\ Len(ex.instructions) = Len(all)
            /\ \A i \in 1..Len(all) :
                   /\ ex.instructions[i].id = ExecutionIds(ex.tx, 0)[i]
                   /\ ex.instructions[i].program_id_index = all[i].program_id_index
                   /\ ex.instructions[i].data = all[i].data

\* C25: a context manager yields only for a process that printed the ready
\* token, and raises without yielding when the output ended first; once it
\* has exited or raised its process is not running, and the process was sent
\* nothing, or SIGTERM, or SIGTERM and then SIGKILL; whenever it exits or
\* raises on a process that runs, SIGTERM is sent.
C25_ValidatorLifeCycle ==
    [][\A i \in 1..Len(procs') :
           LET p == procs'[i]
           IN  /\ p.cm = "yielded" => p.ready
               /\ ~p.ready => p.cm = "raised"
               /\ p.cm \in {"exited", "raised"} => ~p.running
               /\ p.signals \in {<<>>, <<"SIGTERM">>, <<"SIGTERM", "SIGKILL">>}
               /\ (/\ i <= Len(procs) /\ procs[i].running /\ procs[i].cm = "yielded"
                   /\ p.cm = "exited") => p.signals # <<>>
      ]_vars

\* a context manager exited on a process that ignored SIGTERM, and another
\* raised on a process whose output ended while it still ran
C25_Witness ==
    /\ Len(procs) >= 2
    /\ procs[1].cm = "exited" /\ procs[1].signals = <<"SIGTERM", "SIGKILL">>
    /\ procs[2].cm = "raised" /\ ~procs[2].ready /\ procs[2].signals = <<"SIGTERM">>
    /\ ~procs[1].running /\ ~procs[2].running

LiveProcs == {i \in 1..Len(procs) : procs[i].running}

\* C26: over any sequence of reset and close calls at most one of the
\* processes the environment launched is running, and only the one its
\* current context manager holds: after close none is.
C26_AtMostOneValidator ==
    /\ Cardinality(LiveProcs) <= 1
    /\ LiveProcs \subseteq {Len(procs)}
    /\ LiveProcs # {} => validator_cm = "entered"
    /\ validator_cm = "None" => LiveProcs = {}

\* the third validator runs after two earlier ones were shut down, one by
\* reset and one by close
C26_Witness ==
    /\ Len(procs) = 3
    /\ LiveProcs = {3}
    /\ procs[1].cm = "exited" /\ procs[1].signals # <<>>
    /\ procs[2].cm = "exited" /\ procs[2].signals # <<>>
    /\ call.op = "reset"

\* C27: step called before any reset fails with ValueError and does nothing
\* else; after a reset, a rollout has made at most
\* action_agent_task_max_retries calls of step, it goes on only while no step
\* succeeded and fewer calls than that were made, and it has returned only
\* when its last step succeeded or it made that many calls.
C27_RolloutBounded ==
    [][/\ (voyager.action_agent_rollout_num_iter < 0 /\ voyager' # voyager) =>
              \/ voyager'.pc \in {"rollout", "raised"} /\ voyager'.rollouts = 1
              \/ /\ voyager' = [voyager EXCEPT !.raised = "ValueError"]
                 /\ UNCHANGED envVars
       /\ voyager'.pc \in {"rollout", "returned"} =>
              /\ voyager'.steps <= voyager'.action_agent_task_max_retries
              /\ (voyager'.pc = "rollout" /\ voyager'.steps > 0) =>
                     ~voyager'.success
                     /\ voyager'.steps < voyager'.action_agent_task_max_retries
              /\ voyager'.pc = "returned" =>
                     \/ voyager'.success
                     \/ voyager'.steps = voyager'.action_agent_task_max_retries
      ]_vars

\* the message indexes at which a key was presented to an explorer's metrics
PresentedAt(who, kind, key) ==
    {r[4] : r \in {q \in metrics.recorded : q[1] = who /\ q[2] = kind /\ q[3] = key}}

\* the markers hold exactly the keys presented, each with the index of the
\* first message that presented it
FirstSeen(discovered, who, kind) ==
    /\ DOMAIN discovered = {r[3] : r \in {q \in metrics.recorded : q[1] = who /\ q[2] = kind}}
    /\ \A key \in DOMAIN discovered :
           /\ discovered[key] \in PresentedAt(who, kind, key)
           /\ \A i \in PresentedAt(who, kind, key) : discovered[key] <= i

\* a marker that is set stays, with its value
WriteOnce(discovered, after) ==
    \A key \in DOMAIN discovered : key \in DOMAIN after /\ after[key] = discovered[key]

\* C29: once programs_discovered[program] or instructions_discovered[key] is
\* set, no later message overwrites or removes it, in the code-loop explorer
\* and in the simple explorer alike, so each marker is the index of the
\* first message that recorded its key.
C29_MarkersWriteOnce ==
    [][/\ WriteOnce(metrics.code_loop.programs_discovered,
                    metrics'.code_loop.programs_discovered)
       /\ WriteOnce(metrics.simple.programs_discovered,
                    metrics'.simple.programs_discovered)
       /\ WriteOnce(metrics.simple.instructions_discovered,
                    metrics'.simple.instructions_discovered)
       /\ FirstSeen(metrics.code_loop.programs_discovered, "code_loop", "program")'
       /\ FirstSeen(metrics.simple.programs_discovered, "simple", "program")'
       /\ FirstSeen(metrics.simple.instructions_discovered, "simple", "instruction")'
      ]_vars

\* a program and an instruction key were presented again by later messages
\* and kept their first index
C29_Witness ==
    /\ PresentedAt("simple", "program", SYSTEM) = {0, 1, 2}
    /\ metrics.simple.programs_discovered = (SYSTEM :> 0)
    /\ PresentedAt("simple", "instruction", InstructionKey(SYSTEM, "borrow")) = {1, 2}
    /\ metrics.simple.instructions_discovered = (InstructionKey(SYSTEM, "borrow") :> 1)

\* C21: the model is never awaited while a call of env.step of the same
\* explorer is under way, and when a request is issued every call of env.step
\* begun before it has ended, its scoring with it.
C21_OneTransactionAtATime ==
    [][/\ (explorer.pc = "llm" => ~explorer.inflight)'
       /\ (explorer.inflight <=> explorer.submitted = explorer.completed + 1)'
       /\ explorer'.requests > explorer.requests =>
              /\ ~explorer.inflight /\ ~explorer'.inflight
              /\ explorer'.submitted = explorer'.completed
              /\ explorer'.submitted <= explorer.requests
      ]_vars

\* the second request is issued after the transaction of the first message
\* was scored and credited
C21_Witness ==
    /\ explorer.pc = "llm" /\ explorer.requests = 2
    /\ explorer.completed = 1
    /\ Len(explorer.messages) = 1 /\ explorer.messages[1].kind = "step"
    /\ explorer.messages[1].own = 1 /\ total_reward = 1

RECURSIVE SumRewards(_)
SumRewards(messages) ==
    IF messages = <<>> THEN 0 ELSE Head(messages).reward + SumRewards(Tail(messages))

\* C23: the reward recorded for a message is the reward its own transaction
\* earned, 0 for a message without code block or whose transaction was not
\* executed, and, whenever the loop stands at its head or has ended, the
\* recorded rewards sum to the growth of env.total_reward since it began.
C23_MessageRewardIsOwn ==
    /\ \A i \in 1..Len(explorer.messages) :
           /\ explorer.messages[i].reward = explorer.messages[i].own
           /\ explorer.messages[i].kind # "step" => explorer.messages[i].reward = 0
    /\ explorer.pc \in {"loop", "done"} => SumRewards(explorer.messages) = total_reward

\* C24: message_count never exceeds max_messages and is the number of model
\* requests issued, every iteration adds one to it, and the loop ends, having
\* issued exactly max_messages requests.
C24_LoopTerminates ==
    /\ [](/\ explorer.message_count <= explorer.max_messages
          /\ explorer.requests = explorer.message_count
          /\ explorer.pc = "done" => explorer.requests = explorer.max_messages)
    /\ [][explorer'.message_count \in {explorer.message_count, explorer.message_count + 1}
          /\ (explorer.pc = "loop" /\ explorer'.pc # "done") =>
                 explorer'.message_count = explorer.message_count + 1]_vars
    /\ <>(explorer.pc = "done" /\ explorer.requests = explorer.max_messages)

\* the loop has ended after two requests, one answered by an error, the
\* other without code block
C24_Witness ==
    /\ explorer.pc = "done"
    /\ explorer.max_messages = 2 /\ explorer.requests = 2 /\ explorer.message_count = 2
    /\ explorer.errors = 1
    /\ Len(explorer.messages) = 1
    /\ explorer.messages[1].kind = "no_code" /\ explorer.messages[1].index = 2

====
